---- MODULE Spec2Model ----
(***************************************************************************)
(* LineCook server (server.py): one JSON Document kept in data/doc.json,   *)
(* served by a ThreadingHTTPServer.  Every request runs Handler.do_GET or  *)
(* Handler.do_PUT on a thread of its own; the handlers share nothing but   *)
(* the file system (doc.json and its sibling doc.json.tmp) and the clock.  *)
(* There is no lock in server.py: a handler's steps interleave with the    *)
(* other handlers' at every file-system call.                              *)
(*                                                                         *)
(* The file system is modelled with inodes: a directory maps the two names *)
(* to inodes, an open file descriptor keeps pointing at its inode after    *)
(* the name was moved by os.replace.  A file's content is a sequence of    *)
(* cells; a serialised Document takes two cells (the head with revision    *)
(* and updatedAt, the body with doc), written one after the other.         *)
(***************************************************************************)
EXTENDS Integers, Sequences, FiniteSets, TLC

\* ------------------------------------------------------------- bounds
MaxEvents == 3       \* requests accepted plus restarts over a run
MaxTime == 1         \* the clock reads 0..MaxTime
MaxBase == 1         \* baseRevision values offered: 0..MaxBase (and -1 in SpecSeq)
MaxCrashes == 1      \* process crashes (SpecCrash)

\* main is process 0; two handler threads run side by side
Main == 0
Threads == {1, 2}
Procs == {Main} \cup Threads
\* doc.json, doc.json.tmp, and a file that lost its name for every open file
Inodes == 1..(Cardinality(Threads) + 2)

\* ------------------------------------------------------------- JSON values
\* A task of doc.tasks, with the fields of the wire shape; j is the JSON type
\* of the list element, "obj" for a task
Task(id, title, done, parentId) ==
    [j |-> "obj", id |-> id, title |-> title, done |-> done, collapsed |-> "false",
     parentId |-> parentId, order |-> 0, start |-> "null", end |-> "null"]

\* an element of doc.tasks that is a JSON number, not an object
NotATask == [Task("", "", "absent", "null") EXCEPT !.j = "num"]

\* doc payloads: tt is the JSON type of doc.tasks
Payload(tasks) == [tt |-> "list", tasks |-> tasks]

\* a doc whose tasks is no list: tt is "absent" (no tasks key), "null", "num",
\* or "str" (a non-empty string)
NoList(tt) == [tt |-> tt, tasks |-> << >>]

EmptyPayload == Payload(<< >>)

SeedPayload ==
    Payload(<< Task("t1", "Example task 2025-12-16 3d", "false", "null"),
               Task("t2", "Subtask 2025-12-18", "false", "t1") >>)

DocA == Payload(<< Task("a1", "A", "true", "null"), Task("a2", "A2", "false", "a1") >>)
DocB == Payload(<< Task("b1", "B", "false", "null") >>)
PutDocs == {DocA, DocB}

\* a doc whose tasks carry every kind of done value: null, absent, 0, 1, "",
\* "x", true, false, and differ in collapsed, parentId and order
DocC ==
    Payload(<< Task("c1", "C1", "null", "null"),
               [Task("c2", "C2", "true", "c1") EXCEPT !.collapsed = "true", !.order = 1],
               Task("c3", "C3", "absent", "null"),
               [Task("c4", "C4", "zero", "c3") EXCEPT !.order = 2],
               Task("c5", "C5", "one", "null"),
               [Task("c6", "C6", "false", "c5") EXCEPT !.collapsed = "true"],
               Task("c7", "C7", "empty", "null"),
               Task("c8", "C8", "str", "null") >>)
\* a doc whose tasks holds a task and a number
DocMixed == Payload(<< Task("m1", "M", "false", "null"), NotATask >>)
\* the docs offered to one request after the other
SeqDocs ==
    PutDocs \cup {DocC, DocMixed}
      \cup {NoList("absent"), NoList("null"), NoList("num"), NoList("str")}

Document(rev, at, doc) == [revision |-> rev, updatedAt |-> at, doc |-> doc]

\* "no Document": what a failed read or an absent field stands for
NoDoc == Document(-1, -1, EmptyPayload)

\* ------------------------------------------------------------- file content
HeadCell(rev, at) == [k |-> "head", revision |-> rev, updatedAt |-> at, doc |-> EmptyPayload]
BodyCell(doc) == [k |-> "body", revision |-> 0, updatedAt |-> 0, doc |-> doc]
ZeroCell == [k |-> "zero", revision |-> 0, updatedAt |-> 0, doc |-> EmptyPayload]

\* json.dump(data, f, indent=2); f.write("\n"): the text of a Document
Serialize(d) == << HeadCell(d.revision, d.updatedAt), BodyCell(d.doc) >>

\* json.load(f): the Document a file's text stands for, NoDoc when json.load raises
Parse(content) ==
    IF Len(content) = 2 /\ content[1].k = "head" /\ content[2].k = "body"
    THEN Document(content[1].revision, content[1].updatedAt, content[2].doc)
    ELSE NoDoc

\* write(2) of one cell at offset off (1-based) of a file: a hole reads as zeros
WriteAt(content, off, cell) ==
    [i \in 1..(IF Len(content) > off THEN Len(content) ELSE off) |->
        IF i = off THEN cell
        ELSE IF i <= Len(content) THEN content[i]
        ELSE ZeroCell]

\* ------------------------------------------------------------- requests
\* A JSON value of a request body's field: t is its JSON type, v its number
JInt(n) == [t |-> "int", v |-> n]
JBool(n) == [t |-> "bool", v |-> n]          \* Python: True == 1, False == 0
JOther(t) == [t |-> t, v |-> 0]              \* "missing", "null", "float", "str"

\* The doc field of a body: an object carries its payload
JDoc(doc) == [t |-> "obj", v |-> doc]
JNotDoc(t) == [t |-> t, v |-> EmptyPayload]    \* "missing", "null", "list", "str"

\* raw: "none" (no bytes), "badutf8", "badjson", "json"; top: JSON type of the body
Body(raw, top, base, doc) == [raw |-> raw, top |-> top, base |-> base, doc |-> doc]
NoBody == Body("none", "obj", JOther("missing"), JNotDoc("missing"))

BaseValues ==
    {JInt(n) : n \in -1..MaxBase} \cup {JBool(0), JBool(1)}
      \cup {JOther("missing"), JOther("null"), JOther("float"), JOther("str")}
DocValues ==
    {JDoc(d) : d \in PutDocs} \cup {JNotDoc("missing"), JNotDoc("list"), JNotDoc("str")}

\* The update bodies offered to PUT /api/doc
WellTyped(b) == b.raw = "json" /\ b.top = "obj" /\ b.base.t = "int" /\ b.doc.t = "obj"
Bodies ==
    {Body("json", "obj", b, d) : b \in {JInt(n) : n \in -1..MaxBase}, d \in {JDoc(x) : x \in SeqDocs}}
      \cup {Body("json", "obj", b, JDoc(DocA)) : b \in BaseValues}
      \cup {Body("json", "obj", JInt(0), d) : d \in DocValues}
      \cup {Body("json", "list", JOther("missing"), JNotDoc("missing")),
            Body("badjson", "obj", JOther("missing"), JNotDoc("missing")),
            Body("badutf8", "obj", JOther("missing"), JNotDoc("missing")),
            NoBody}

\* kind: "getdoc" GET /api/doc, "inprogress" GET /api/tasks/inprogress,
\* "put" PUT /api/doc, "other" PUT of any other path
Request(kind, body) == [kind |-> kind, body |-> body]
NoRequest == Request("none", NoBody)
Requests ==
    {Request("getdoc", NoBody), Request("inprogress", NoBody), Request("other", NoBody)}
      \cup {Request("put", b) : b \in Bodies}

\* The requests that race: the reads and the well-typed updates
RacingRequests ==
    {Request("getdoc", NoBody), Request("inprogress", NoBody)}
      \cup {Request("put", Body("json", "obj", JInt(n), JDoc(d))) : n \in 0..MaxBase, d \in PutDocs}

\* _send_json / _send_text: status, the error message or text, the Document of
\* the body (200 of /api/doc, "current" of a 409), the array of /api/tasks/inprogress
Response(status, msg, document, tasks) ==
    [status |-> status, msg |-> msg, document |-> document, tasks |-> tasks]
NoResponse == Response(0, "", NoDoc, << >>)
ServerError == Response(500, "Server error", NoDoc, << >>)
ApiError(status, msg) == Response(status, msg, NoDoc, << >>)

\* ------------------------------------------------------------- pure steps
\* not t.get("done"): Python truthiness of the JSON value of done. The tags are
\* "true", "false", "null", "absent" (no done key), "zero" (0), "one" (1),
\* "empty" (""), "str" (a non-empty string)
Truthy(done) == done \in {"true", "one", "str"}

RECURSIVE Filter(_)
\* [t for t in tasks if not t.get("done")]
Filter(tasks) ==
    IF tasks = << >> THEN << >>
    ELSE IF Truthy(Head(tasks).done) THEN Filter(Tail(tasks))
    ELSE << Head(tasks) >> \o Filter(Tail(tasks))

\* _handle_get_inprogress after its read, given the doc of the Document read:
\* iterating a number or null raises TypeError, .get of a list element that is
\* no object (or of a character of a string) raises AttributeError, and do_GET
\* answers both with 500; a doc without tasks gives the default []
InProgress(doc) ==
    IF doc.tt \in {"num", "null", "str"} THEN ServerError
    ELSE IF doc.tt = "absent" THEN Response(200, "", NoDoc, << >>)
    ELSE IF \E i \in 1..Len(doc.tasks) : doc.tasks[i].j # "obj" THEN ServerError
    ELSE Response(200, "", NoDoc, Filter(doc.tasks))

\* Decide with the comparison of line 159 written as <: a baseRevision ahead of
\* the stored revision is taken for a match
DecideLess(b, current) ==
    IF b.raw = "none" THEN ApiError(400, "Missing request body")
    ELSE IF b.raw = "badutf8" THEN ServerError
    ELSE IF b.raw = "badjson" THEN ApiError(400, "Invalid JSON")
    ELSE IF b.top # "obj" THEN ServerError
    ELSE IF b.base.t \notin {"int", "bool"}
         THEN ApiError(400, "baseRevision must be an integer")
    ELSE IF b.doc.t # "obj" THEN ApiError(400, "doc must be an object")
    ELSE IF b.base.v < current.revision THEN Response(409, "conflict", current, << >>)
    ELSE NoResponse

\* _read_body_json and the checks of _handle_put_doc, given the Document read
\* before them: the response, or status 0 when the handler goes on to write
Decide(b, current) ==
    IF b.raw = "none" THEN ApiError(400, "Missing request body")
    ELSE IF b.raw = "badutf8" THEN ServerError
    ELSE IF b.raw = "badjson" THEN ApiError(400, "Invalid JSON")
    ELSE IF b.top # "obj" THEN ServerError
    ELSE IF b.base.t \notin {"int", "bool"}
         THEN ApiError(400, "baseRevision must be an integer")
    ELSE IF b.doc.t # "obj" THEN ApiError(400, "doc must be an object")
    ELSE IF b.base.v # current.revision THEN Response(409, "conflict", current, << >>)
    ELSE NoResponse

\* next_payload of _handle_put_doc
NextPayload(b, current, now) == Document(current.revision + 1, now, b.doc.v)

\* seed of _ensure_seed_doc
SeedDocument(now) == Document(0, now, SeedPayload)

\* ------------------------------------------------------------- state
VARIABLES
    dir,        \* DATA_DIR: the inode of doc.json and of doc.json.tmp, 0 when absent
    inode,      \* the content of every inode
    clock,      \* the last reading of the clock
    pc,         \* where main (process 0) and every handler thread stand
    req,        \* the request a handler thread serves
    current,    \* _handle_put_doc's local: the Document it read
    wdata,      \* _write_json_atomic's argument data
    fd,         \* _write_json_atomic's open file f: its inode, 0 when closed
    resp,       \* the response a handler sent
    nreq,       \* requests accepted so far
    crashes,    \* process crashes so far
    \* history, read by the properties only
    access,     \* what a handler did to the store so far: "none", "read", "write"
    clean,      \* the handler's os.replace succeeded and doc.json was not touched since
    installed,  \* the data of the latest os.replace that succeeded
    seedWrites, \* how many times _ensure_seed_doc replaced doc.json
    seedOver,   \* _ensure_seed_doc replaced a doc.json that existed
    unwritten,  \* doc.json was not touched since the handler read it
    conflict,   \* current.revision of the latest 409 sent, -1 once a process wrote
    retry,      \* the handler serves PUT(conflict, object) and no other process wrote
    touched,    \* a step of the handler changed the text at doc.json
    watch       \* conflict, retry and touched are recorded (SpecWatch)

prog == << dir, inode, clock, pc, req, current, wdata, fd, resp, nreq, crashes >>
hist == << access, clean, installed, seedWrites, seedOver, unwritten, conflict, retry, touched, watch >>
vars == << prog, hist >>

\* DOC_PATH.exists()
DocExists == dir.doc # 0

\* The text at the canonical location, and the Document _read_json(DOC_PATH) returns
DocContent == IF DocExists THEN inode[dir.doc] ELSE << >>
Stored == IF DocExists THEN Parse(inode[dir.doc]) ELSE NoDoc

\* An inode lives as long as a name or an open file refers to it
Referenced(i, d, f) == i \in {d.doc, d.tmp} \/ \E p \in Procs : f[p] = i
Reclaim(ino, d, f) == [i \in Inodes |-> IF Referenced(i, d, f) THEN ino[i] ELSE << >>]
FreshInode == CHOOSE i \in Inodes :
    /\ ~Referenced(i, dir, fd)
    /\ \A j \in Inodes : ~Referenced(j, dir, fd) => i <= j

InitState(w) ==
    /\ dir = [doc |-> 0, tmp |-> 0]
    /\ inode = [i \in Inodes |-> << >>]
    /\ clock = 0
    /\ pc = [p \in Procs |-> IF p = Main THEN "seed" ELSE "idle"]
    /\ req = [t \in Threads |-> NoRequest]
    /\ current = [t \in Threads |-> NoDoc]
    /\ wdata = [p \in Procs |-> NoDoc]
    /\ fd = [p \in Procs |-> 0]
    /\ resp = [t \in Threads |-> NoResponse]
    /\ nreq = 0
    /\ crashes = 0
    /\ access = [t \in Threads |-> "none"]
    /\ clean = [t \in Threads |-> FALSE]
    /\ installed = NoDoc
    /\ seedWrites = 0
    /\ seedOver = FALSE
    /\ unwritten = [t \in Threads |-> FALSE]
    /\ conflict = -1
    /\ retry = [t \in Threads |-> FALSE]
    /\ touched = [t \in Threads |-> FALSE]
    /\ watch = w

Init == InitState(FALSE)

\* ------------------------------------------------------------- helpers
Goto(p, label) == pc' = [pc EXCEPT ![p] = label]

\* the handler sends its response and is done
Respond(t, r) ==
    /\ resp' = [resp EXCEPT ![t] = r]
    /\ Goto(t, "done")

\* where a process goes on after _ensure_seed_doc
AfterSeed(p) == IF p = Main THEN "serve" ELSE "read"

InSeed(p) == pc[p] \in {"s_open", "s_head", "s_body", "s_replace"}

\* ------------------------------------------------------------- history
Stepped(p) == pc'[p] # pc[p]

\* process p's os.replace succeeded in this step
Replaced(p) == pc[p] \in {"s_replace", "w_replace"} /\ Stepped(p) /\ dir'.doc # dir.doc
SeedReplaced == \E p \in Procs : pc[p] = "s_replace" /\ Replaced(p)

\* process p takes a step of _write_json_atomic
Wrote(p) ==
    /\ pc[p] \in {"s_open", "s_head", "s_body", "s_replace",
                  "w_open", "w_head", "w_body", "w_replace"}
    /\ Stepped(p)

\* The history variables follow the step the program takes
Track ==
    /\ access' = [t \in Threads |->
          IF pc'[t] = "idle" THEN "none"
          ELSE IF ~Stepped(t) THEN access[t]
          ELSE IF pc[t] \in {"s_open", "s_head", "s_body", "s_replace",
                             "w_open", "w_head", "w_body", "w_replace"} THEN "write"
          ELSE IF pc[t] \in {"seed", "read"} /\ access[t] = "none" THEN "read"
          ELSE access[t]]
    /\ clean' = [t \in Threads |->
          IF pc'[t] = "idle" THEN FALSE
          ELSE IF pc[t] = "w_replace" /\ Replaced(t) THEN TRUE
          ELSE clean[t] /\ dir'.doc = dir.doc /\ inode'[dir.doc] = inode[dir.doc]]
    /\ installed' = IF \E p \in Procs : Replaced(p)
                    THEN wdata[CHOOSE p \in Procs : Replaced(p)]
                    ELSE installed
    /\ seedWrites' = IF SeedReplaced THEN seedWrites + 1 ELSE seedWrites
    /\ seedOver' = (seedOver \/ (SeedReplaced /\ DocExists))
    /\ unwritten' = [t \in Threads |->
          IF pc'[t] = "idle" THEN FALSE
          ELSE IF pc[t] = "read" /\ Stepped(t) THEN TRUE
          ELSE unwritten[t] /\ dir'.doc = dir.doc /\ inode'[dir.doc] = inode[dir.doc]]
    /\ watch' = watch
    /\ touched' = [t \in Threads |->
          /\ watch
          /\ pc'[t] # "idle"
          /\ \/ touched[t]
             \/ Stepped(t) /\ (dir'.doc # dir.doc \/ inode'[dir.doc] # inode[dir.doc])]
    /\ conflict' =
          IF ~watch THEN conflict
          ELSE IF \E p \in Procs : Wrote(p) THEN -1
          ELSE IF \E t \in Threads : Stepped(t) /\ pc'[t] = "done" /\ resp'[t].status = 409
          THEN resp'[CHOOSE t \in Threads :
                       Stepped(t) /\ pc'[t] = "done" /\ resp'[t].status = 409].document.revision
          ELSE conflict
    /\ retry' = [t \in Threads |->
          IF ~watch \/ pc'[t] = "idle" THEN FALSE
          ELSE IF pc[t] = "idle"
          THEN /\ req'[t].kind = "put"
               /\ req'[t].body.raw = "json" /\ req'[t].body.top = "obj"
               /\ req'[t].body.base.t = "int" /\ req'[t].body.doc.t = "obj"
               /\ conflict >= 0
               /\ req'[t].body.base.v = conflict
          ELSE retry[t] /\ ~\E p \in Procs \ {t} : Wrote(p)]

\* ------------------------------------------------------------- main
\* ThreadingHTTPServer hands a request to a new thread; do_GET / do_PUT route it
\* to its handler, do_PUT answers 404 for a path that is not /api/doc
Start(t, r) ==
    /\ pc[Main] = "serve"
    /\ pc[t] = "idle"
    /\ nreq + crashes < MaxEvents
    /\ nreq' = nreq + 1
    /\ req' = [req EXCEPT ![t] = r]
    /\ IF r.kind = "other"
       THEN Respond(t, ApiError(404, "Not found"))
       ELSE Goto(t, "seed") /\ UNCHANGED resp
    /\ UNCHANGED << dir, inode, clock, current, wdata, fd, crashes >>
    /\ Track

\* EnsureSeed with main not calling _ensure_seed_doc before it serves: the
\* handlers alone seed
EnsureSeedLazyOnly(p) ==
    /\ pc[p] = "seed"
    /\ IF DocExists \/ p = Main
       THEN /\ Goto(p, AfterSeed(p))
            /\ UNCHANGED << clock, wdata >>
       ELSE \E now \in clock..MaxTime :
            /\ clock' = now
            /\ wdata' = [wdata EXCEPT ![p] = SeedDocument(now)]
            /\ Goto(p, "s_open")
    /\ UNCHANGED << dir, inode, req, current, fd, resp, nreq, crashes >>
    /\ Track

\* EnsureSeed without the early return of line 40: _ensure_seed_doc writes the
\* seed whether doc.json exists or not
EnsureSeedRewrites(p) ==
    /\ pc[p] = "seed"
    /\ \E now \in clock..MaxTime :
         /\ clock' = now
         /\ wdata' = [wdata EXCEPT ![p] = SeedDocument(now)]
         /\ Goto(p, "s_open")
    /\ UNCHANGED << dir, inode, req, current, fd, resp, nreq, crashes >>
    /\ Track

\* _ensure_seed_doc up to the call of _write_json_atomic: main calls it before
\* the server exists, every /api handler calls it first
EnsureSeed(p) ==
    /\ pc[p] = "seed"
    /\ IF DocExists
       THEN /\ Goto(p, AfterSeed(p))
            /\ UNCHANGED << clock, wdata >>
       ELSE \E now \in clock..MaxTime :
            /\ clock' = now
            /\ wdata' = [wdata EXCEPT ![p] = SeedDocument(now)]
            /\ Goto(p, "s_open")
    /\ UNCHANGED << dir, inode, req, current, fd, resp, nreq, crashes >>
    /\ Track

\* ------------------------------------------------------------- _write_json_atomic
\* tmp_path.open("w"): creates doc.json.tmp, or truncates the one that is there
WriteOpen(p) ==
    /\ pc[p] \in {"s_open", "w_open"}
    /\ LET i == IF dir.tmp = 0 THEN FreshInode ELSE dir.tmp IN
         /\ dir' = [dir EXCEPT !.tmp = i]
         /\ inode' = [inode EXCEPT ![i] = << >>]
         /\ fd' = [fd EXCEPT ![p] = i]
    /\ Goto(p, IF InSeed(p) THEN "s_head" ELSE "w_head")
    /\ UNCHANGED << clock, req, current, wdata, resp, nreq, crashes >>
    /\ Track

\* json.dump: the first part of the text reaches the file
WriteHead(p) ==
    /\ pc[p] \in {"s_head", "w_head"}
    /\ inode' = [inode EXCEPT ![fd[p]] = WriteAt(@, 1, Serialize(wdata[p])[1])]
    /\ Goto(p, IF InSeed(p) THEN "s_body" ELSE "w_body")
    /\ UNCHANGED << dir, clock, req, current, wdata, fd, resp, nreq, crashes >>
    /\ Track

\* the rest of the text reaches the file, and the with block closes it
WriteBody(p) ==
    /\ pc[p] \in {"s_body", "w_body"}
    /\ fd' = [fd EXCEPT ![p] = 0]
    /\ inode' = Reclaim([inode EXCEPT ![fd[p]] = WriteAt(@, 2, Serialize(wdata[p])[2])],
                        dir, fd')
    /\ Goto(p, IF InSeed(p) THEN "s_replace" ELSE "w_replace")
    /\ UNCHANGED << dir, clock, req, current, wdata, resp, nreq, crashes >>
    /\ Track

\* os.replace(tmp_path, path); FileNotFoundError when doc.json.tmp is gone, which
\* do_GET / do_PUT answer with 500
Replace(p) ==
    /\ pc[p] \in {"s_replace", "w_replace"}
    /\ IF dir.tmp # 0
       THEN /\ dir' = [doc |-> dir.tmp, tmp |-> 0]
            /\ inode' = Reclaim(inode, dir', fd)
            /\ Goto(p, IF InSeed(p) THEN AfterSeed(p) ELSE "send")
            /\ UNCHANGED resp
       ELSE /\ UNCHANGED << dir, inode >>
            /\ IF p = Main
               THEN Goto(p, "exit") /\ UNCHANGED resp
               ELSE Respond(p, ServerError)
    /\ UNCHANGED << clock, req, current, wdata, fd, nreq, crashes >>
    /\ Track

\* ------------------------------------------------------------- handlers
\* Read with a failed json.load taken for an empty Document instead of raised
ReadDefaulting(t) ==
    /\ pc[t] = "read"
    /\ IF req[t].kind = "getdoc"
       THEN Respond(t, Response(200, "", Stored, << >>)) /\ UNCHANGED current
       ELSE IF req[t].kind = "inprogress"
       THEN Respond(t, InProgress(Stored.doc))
            /\ UNCHANGED current
       ELSE /\ current' = [current EXCEPT ![t] = Stored]
            /\ Goto(t, "decide")
            /\ UNCHANGED resp
    /\ UNCHANGED << dir, inode, clock, req, wdata, fd, nreq, crashes >>
    /\ Track

\* _read_json(DOC_PATH) of the three handlers; _handle_get_doc and
\* _handle_get_inprogress answer with what they read
Read(t) ==
    /\ pc[t] = "read"
    /\ IF Stored = NoDoc
       THEN Respond(t, ServerError) /\ UNCHANGED current
       ELSE IF req[t].kind = "getdoc"
       THEN Respond(t, Response(200, "", Stored, << >>)) /\ UNCHANGED current
       ELSE IF req[t].kind = "inprogress"
       THEN Respond(t, InProgress(Stored.doc))
            /\ UNCHANGED current
       ELSE /\ current' = [current EXCEPT ![t] = Stored]
            /\ Goto(t, "decide")
            /\ UNCHANGED resp
    /\ UNCHANGED << dir, inode, clock, req, wdata, fd, nreq, crashes >>
    /\ Track

\* _handle_put_doc from _read_body_json to next_payload: 400, 409, 500, or on to
\* the write
PutDecide(t) ==
    /\ pc[t] = "decide"
    /\ LET r == Decide(req[t].body, current[t]) IN
         IF r # NoResponse
         THEN Respond(t, r) /\ UNCHANGED << clock, wdata >>
         ELSE \E now \in clock..MaxTime :
              /\ clock' = now
              /\ wdata' = [wdata EXCEPT ![t] = NextPayload(req[t].body, current[t], now)]
              /\ Goto(t, "w_open")
              /\ UNCHANGED resp
    /\ UNCHANGED << dir, inode, req, current, fd, nreq, crashes >>
    /\ Track

\* self._send_json(200, next_payload)
PutSend(t) ==
    /\ pc[t] = "send"
    /\ Respond(t, Response(200, "", wdata[t], << >>))
    /\ UNCHANGED << dir, inode, clock, req, current, wdata, fd, nreq, crashes >>
    /\ Track

\* the handler returns and its thread ends
Return(t) ==
    /\ pc[t] = "done"
    /\ Goto(t, "idle")
    /\ req' = [req EXCEPT ![t] = NoRequest]
    /\ current' = [current EXCEPT ![t] = NoDoc]
    /\ wdata' = [wdata EXCEPT ![t] = NoDoc]
    /\ resp' = [resp EXCEPT ![t] = NoResponse]
    /\ UNCHANGED << dir, inode, clock, fd, nreq, crashes >>
    /\ Track

\* The process is killed and started again: the threads and their open files are
\* gone, the files stay as they are
Crash ==
    /\ crashes < MaxCrashes
    /\ nreq + crashes < MaxEvents
    /\ crashes' = crashes + 1
    /\ pc' = [p \in Procs |-> IF p = Main THEN "seed" ELSE "idle"]
    /\ req' = [t \in Threads |-> NoRequest]
    /\ current' = [t \in Threads |-> NoDoc]
    /\ wdata' = [p \in Procs |-> NoDoc]
    /\ fd' = [p \in Procs |-> 0]
    /\ resp' = [t \in Threads |-> NoResponse]
    /\ inode' = Reclaim(inode, dir, fd')
    /\ UNCHANGED << dir, clock, nreq >>
    /\ Track

\* a step of a request under way, or of main
Step ==
    \/ \E p \in Procs : EnsureSeed(p)
    \/ \E p \in Procs : WriteOpen(p)
    \/ \E p \in Procs : WriteHead(p)
    \/ \E p \in Procs : WriteBody(p)
    \/ \E p \in Procs : Replace(p)
    \/ \E t \in Threads : Read(t)
    \/ \E t \in Threads : PutDecide(t)
    \/ \E t \in Threads : PutSend(t)
    \/ \E t \in Threads : Return(t)

\* Two handler threads serving reads and well-typed updates side by side
Next ==
    \/ \E t \in Threads, r \in RacingRequests : Start(t, r)
    \/ Step

Spec == Init /\ [][Next]_vars

\* The same, with the process killed and started again
NextCrash == Next \/ Crash

SpecCrash == Init /\ [][NextCrash]_vars

\* One request after the other, over every kind of request and body
NextSeq ==
    \/ \E r \in Requests : Start(1, r)
    \/ Step

SpecSeq == Init /\ [][NextSeq]_vars

\* Spec with the history of conflicts, retries and changes of doc.json recorded
InitWatch == InitState(TRUE)

SpecWatch == InitWatch /\ [][Next]_vars

\* ------------------------------------------------------------- properties
IsPut(t) == req[t].kind = "put"
Answered(t, status) == pc[t] = "done" /\ resp[t].status = status

\* C1: of two PUT /api/doc that are in flight together and carry the same
\* baseRevision, at most one is answered 200.
C1_OneWinner ==
    \A t1, t2 \in Threads :
        (t1 # t2 /\ IsPut(t1) /\ IsPut(t2)
           /\ req[t1].body.base = req[t2].body.base
           /\ Answered(t1, 200))
        => ~Answered(t2, 200)

\* C2: the stored revision never decreases, and the os.replace of an accepted
\* write raises it by exactly 1 over the revision stored right before.
C2_RevisionSteps ==
    [][ (Stored # NoDoc /\ Stored' # NoDoc)
        => /\ Stored'.revision >= Stored.revision
           /\ \A t \in Threads :
                (pc[t] = "w_replace" /\ Replaced(t))
                => Stored'.revision = Stored.revision + 1 ]_vars

\* C3: a well-formed PUT whose baseRevision differs from the revision its
\* handler found stored is answered 409 with the Document it found, and its
\* handler wrote nothing.
C3_ConflictWritesNothing ==
    \A t \in Threads :
        (pc[t] = "done" /\ IsPut(t) /\ WellTyped(req[t].body)
           /\ current[t] # NoDoc
           /\ req[t].body.base.v # current[t].revision)
        => /\ resp[t] = Response(409, "conflict", current[t], << >>)
           /\ access[t] # "write"

\* C3 witness: a conflict answered after another writer committed revision 1,
\* with the store as the handler found it
C3_Witness ==
    \E t \in Threads :
        /\ Answered(t, 409) /\ IsPut(t)
        /\ req[t].body.base.v = 0
        /\ current[t].revision = 1
        /\ Stored = current[t]
        /\ access[t] = "read"

\* C4: the current Document of a 409 response is the Document stored at the
\* moment the response is sent.
C4_ConflictCurrentIsStored ==
    [][ \A t \in Threads :
          (Stepped(t) /\ pc'[t] = "done" /\ resp'[t].status = 409)
          => resp'[t].document = Stored' ]_vars

\* C5: after a PUT was answered 200, and as long as doc.json was not touched
\* since its os.replace, the stored Document is the body of the 200 response:
\* doc is the payload sent and revision is baseRevision + 1.
C5_RoundTrip ==
    \A t \in Threads :
        (Answered(t, 200) /\ IsPut(t) /\ clean[t])
        => /\ Stored = resp[t].document
           /\ Stored.doc = req[t].body.doc.v
           /\ Stored.revision = req[t].body.base.v + 1

\* C6: what a handler reads at doc.json is the complete text of one Document,
\* never a part of one.
C6_ReadsWhole ==
    [][ \A t \in Threads :
          (pc[t] = "read" /\ Stepped(t))
          => (Len(DocContent) = 2 /\ Stored # NoDoc) ]_vars

\* C7: when the process starts again after a crash, doc.json holds the Document
\* of the latest os.replace that succeeded.
C7_CrashKeepsDocument ==
    (crashes > 0 /\ pc[Main] = "seed") => Stored = installed

\* C8: doc.json is seeded at most once and never over an existing doc.json, and
\* as long as no update replaced the seed, every GET /api/doc is answered 200
\* with the one seed Document: revision 0 and the two tasks t1, t2.
C8_SeededOnce ==
    /\ seedWrites <= 1
    /\ ~seedOver
    /\ \A t \in Threads :
         (pc[t] = "done" /\ req[t].kind = "getdoc" /\ installed.revision <= 0)
         => /\ resp[t] = Response(200, "", installed, << >>)
            /\ installed.revision = 0
            /\ installed.doc = SeedPayload
            /\ Len(installed.doc.tasks) = 2
            /\ installed.doc.tasks[1].id = "t1"
            /\ installed.doc.tasks[2].id = "t2"

\* C8 witness: two GET /api/doc answered with the seed, after a crash and
\* restart found doc.json in place
C8_Witness ==
    /\ seedWrites = 1
    /\ crashes > 0
    /\ \A t \in Threads :
         /\ pc[t] = "done" /\ req[t].kind = "getdoc"
         /\ resp[t].status = 200
         /\ resp[t].document.revision = 0
         /\ resp[t].document.doc = SeedPayload

\* C9: a malformed update is answered 400.
C9_MalformedIs400 ==
    \A t \in Threads :
        (pc[t] = "done" /\ IsPut(t) /\ ~WellTyped(req[t].body))
        => resp[t].status = 400

\* C10: a PUT answered 400 was decided before its handler touched the store.
C10_InvalidNeverTouchesStore ==
    \A t \in Threads :
        (Answered(t, 400) /\ IsPut(t)) => access[t] = "none"

\* C11: a PUT /api/doc whose body is a JSON object with a negative integer
\* baseRevision and an object doc is answered 400, not 409 and not 200.
C11_NegativeBaseIs400 ==
    \A t \in Threads :
        (pc[t] = "done" /\ IsPut(t)
           /\ req[t].body.raw = "json" /\ req[t].body.top = "obj"
           /\ req[t].body.base.t = "int" /\ req[t].body.base.v < 0
           /\ req[t].body.doc.t = "obj")
        => resp[t].status = 400

\* C12: GET /api/tasks/inprogress answers with exactly the stored tasks whose
\* done is false or absent, in their stored order; a task with any other done
\* value is left out.
C12_InProgressIsNotDone ==
    \A t \in Threads :
        (Answered(t, 200) /\ req[t].kind = "inprogress" /\ Stored # NoDoc)
        => resp[t].tasks = SelectSeq(Stored.doc.tasks,
                                     LAMBDA x : x.done \in {"false", "absent"})

IsRead(r) == r.kind \in {"getdoc", "inprogress"}

\* C13: no step of a GET /api/doc or GET /api/tasks/inprogress handler changes
\* a file when doc.json exists, and two GET /api/doc answered 200 with doc.json
\* untouched since either of them read it carry the same Document: the stored
\* one, with its revision, updatedAt and doc.
C13_ReadsLeaveStore ==
    /\ [][ \A t \in Threads :
             (Stepped(t) /\ (IsRead(req[t]) \/ IsRead(req'[t])) /\ DocExists)
             => (dir' = dir /\ inode' = inode) ]_vars
    /\ [](\A t1, t2 \in Threads :
             (Answered(t1, 200) /\ req[t1].kind = "getdoc" /\ unwritten[t1]
                /\ Answered(t2, 200) /\ req[t2].kind = "getdoc" /\ unwritten[t2])
             => /\ resp[t1].document = resp[t2].document
                /\ resp[t1].document = Stored)

\* C13 witness: two GET /api/doc answered one after the other with the
\* Document an update stored before them
C13_Witness ==
    /\ \A t \in Threads :
         Answered(t, 200) /\ req[t].kind = "getdoc" /\ unwritten[t]
    /\ Stored.revision = 1
    /\ resp[1].document = Stored
    /\ resp[2].document = Stored

\* C14: a handler whose read of doc.json fails (its text is not the text of a
\* JSON value) or whose os.replace fails answers at once with status 500 and
\* the body "Server error" and nothing else, never with 200, 400 or 409; it
\* does not try again.
C14_StorageFailureIs500 ==
    [][ \A t \in Threads :
          (Stepped(t)
             /\ \/ pc[t] = "read" /\ Stored = NoDoc
                \/ pc[t] \in {"s_replace", "w_replace"} /\ dir.tmp = 0)
          => /\ pc'[t] = "done"
             /\ resp'[t] = Response(500, "Server error", NoDoc, << >>) ]_vars

\* C14 witness: a GET /api/doc answered 500 after it found doc.json cut short,
\* and a PUT answered 500 after its os.replace found doc.json.tmp gone
C14_Witness ==
    \E t1, t2 \in Threads :
        /\ Answered(t1, 500) /\ req[t1].kind = "getdoc"
        /\ Answered(t2, 500) /\ IsPut(t2) /\ access[t2] = "write"

\* C15: a PUT /api/doc that carries the revision c of the current Document of
\* the latest 409 and an object doc, with no write of another process since
\* that 409 was sent, is answered 200 with revision c + 1 and its doc, and that
\* Document is the stored one.
C15_RetryConverges ==
    \A t \in Threads :
        (pc[t] = "done" /\ retry[t])
        => /\ resp[t].status = 200
           /\ resp[t].document.revision = req[t].body.base.v + 1
           /\ resp[t].document.doc = req[t].body.doc.v
           /\ Stored = resp[t].document

\* a retry that went through, after a 409 for a revision an update had stored
C15_Witness ==
    \E t \in Threads :
        /\ Answered(t, 200) /\ retry[t]
        /\ Stored.revision = req[t].body.base.v + 1
        /\ Stored.doc = req[t].body.doc.v

\* C16: no step of a PUT handler that is answered 400, 404, 409 or 500 has
\* changed the text at doc.json.
C16_OnlySuccessChangesStore ==
    \A t \in Threads :
        (pc[t] = "done" /\ req[t].kind \in {"put", "other"} /\ resp[t].status # 200)
        => ~touched[t]

\* C17: with doc.json readable and untouched since the handler read it, GET /api/tasks/inprogress is answered 200, not
\* 5xx, whatever object doc the PUTs answered 200 before it have stored.
C17_InProgressServesEveryDoc ==
    \A t \in Threads :
        (pc[t] = "done" /\ req[t].kind = "inprogress"
           /\ unwritten[t] /\ Stored # NoDoc)
        => resp[t].status = 200

====
